---- MODULE Spec2Model ----
(***************************************************************************)
(* Real-time location fan-out core of GeoTrack-backend                     *)
(* (src/src/modules/tracking/realtime-tracking.service.ts).                *)
(*                                                                         *)
(* One socket.io connection per element of Conns.  Every inbound event     *)
(* starts an async handler; a handler runs synchronously up to its next    *)
(* `await`, where it is suspended and any other handler (of the same or of *)
(* another connection, the disconnect handler included) may run before it  *)
(* resumes.  Each action below is one such synchronous segment.            *)
(***************************************************************************)
EXTENDS Integers, Sequences, FiniteSets, TLC

\* ---------------------------------------------------------------- universe
Conns == {"s1", "s2", "s3"}
Users == {"u1", "u2"}
Orgs == {"org1", "org2"}

\* The connections whose clients send tracking events (a delivery user's device).
Devices == {"s1"}

\* Number of inbound client events that are explored: with one connection, and with three.
MaxEvents == 3
MaxFanoutEvents == 4

\* Number of handlers (all connections together) that may be suspended at the same time.
MaxInFlight == 2

\* Access tokens a client may present; the last one does not verify.
Tokens == {"jwt_u1_org1", "jwt_u2_org2", "jwt_bad"}

\* The tokens the client of a connection holds when three connections are explored.
TokensOf(c) ==
    CASE c = "s1" -> {"jwt_u1_org1", "jwt_u2_org2"}
      [] c = "s2" -> {"jwt_u1_org1"}
      [] OTHER -> {"jwt_u2_org2"}

\* data.location of a location_update: <<latitude, longitude>>.
Locations == {<<90, -180>>, <<95, 10>>, <<0, 181>>, <<-91, 0>>, <<-90, -181>>}
FanoutLocations == {<<90, -180>>, <<95, 10>>}

NoUser == "-"
NoLocation == <<0, 0>>
NoPriority == "-"

\* data.priority of an emergency_request: absent, empty, the four levels, and another string.
Priorities == {NoPriority, "", "low", "medium", "high", "critical", "urgent"}
Invalid == [userId |-> NoUser, organizationId |-> "-"]

\* No getActiveTrackingUsers call is running.
NoQuery == [pc |-> "idle", org |-> "-", snapshot |-> <<>>, records |-> <<>>, pos |-> 0,
            user |-> FALSE, visited |-> <<>>, atCall |-> {}]

\* ------------------------------------------------------------------- state
VARIABLES
    sockets,            \* socket.io: connection -> "new" | "connected" | "disconnected"
    rooms,              \* socket.io adapter: room name -> set of socket ids
    activeConnections,  \* RealtimeTrackingService.activeConnections (Map)
    organizationRooms,  \* RealtimeTrackingService.organizationRooms (Map of Sets)
    insertion,          \* the ids of each Set of organizationRooms in insertion order (the
                        \* order in which iterating the Set yields them)
    inflight,           \* connection -> suspended handlers, in arrival order
    arrived,            \* inbound events received so far
    out,                \* what the last segment emitted, in order
    db,                 \* persistence calls the last segment issued, in order
    query,              \* the getActiveTrackingUsers call of the HTTP route, if one is running
    sessions,           \* history of out: <<connection, room>> of the tracking sessions
                        \* announced to an organization room and not closed there since
    store,              \* the LocationTracking collection: its documents, in insertion order
    bridge              \* the calls of the persistence functions that are suspended

vars == <<sockets, rooms, activeConnections, organizationRooms, insertion, inflight, arrived,
          out, db, query, sessions, store, bridge>>

RoomNames == ({"user"} \X Users) \cup ({"org"} \X Orgs) \cup ({"customer"} \X Users)

\* `user_${userId}`, `org_${organizationId}`, `customer_${userId}`
UserRoom(u) == <<"user", u>>
OrgRoom(o) == <<"org", o>>
CustomerRoom(u) == <<"customer", u>>

\* ----------------------------------------------------------------- helpers
\* Mutant of VerifyAccessToken: the payload is decoded without verifying the signature.
DecodeWithoutVerify(token) ==
    CASE token = "jwt_u2_org2" -> [userId |-> "u2", organizationId |-> "org2"]
      [] OTHER -> [userId |-> "u1", organizationId |-> "org1"]

\* AuthUtils.verifyAccessToken: the decoded payload, or Invalid when jwt.verify throws.
VerifyAccessToken(token) ==
    CASE token = "jwt_u1_org1" -> [userId |-> "u1", organizationId |-> "org1"]
      [] token = "jwt_u2_org2" -> [userId |-> "u2", organizationId |-> "org2"]
      [] OTHER -> Invalid

\* Mutant of ValidLocation: the schema states the max validators only.
ValidLocationNoMin(loc) == loc[1] <= 90 /\ loc[2] <= 180

\* locationTrackingSchema.location: latitude min -90 max 90, longitude min -180 max 180
\* (mongoose runs these validators in save()).
ValidLocation(loc) ==
    /\ loc[1] >= -90 /\ loc[1] <= 90
    /\ loc[2] >= -180 /\ loc[2] <= 180

\* Mutant of IsAuthenticated: the handler tests the socket instead of the registry.
IsAuthenticatedBySocket(c) == sockets[c] = "connected"

\* `const connection = this.activeConnections.get(socket.id); if (!connection) ...`
IsAuthenticated(c) == c \in DOMAIN activeConnections

\* `connection.organizationId` of the record the handler got from activeConnections.
OrganizationOf(c) ==
    IF c \in DOMAIN activeConnections THEN activeConnections[c].organizationId ELSE "-"

\* socket.join(room): adapter.addAll(socket.id, {room}); no check that the socket is connected.
Join(rm, c, room) == IF room \in DOMAIN rm THEN [rm EXCEPT ![room] = @ \cup {c}] ELSE rm

\* socket.io leaves every room of a socket before it fires "disconnect".
LeaveAll(rm, c) == [r \in RoomNames |-> rm[r] \ {c}]

\* Mutant of Recipients: io.emit instead of io.to(room).emit.
RecipientsAll(rm, sk, room) == {x \in Conns : sk[x] = "connected"}

\* io.to(room).emit: the adapter sends to the ids of the room that are connected sockets.
Recipients(rm, sk, room) ==
    IF room \in DOMAIN rm THEN {x \in rm[room] : sk[x] = "connected"} ELSE {}

\* socket.emit: to the sender, dropped when the socket is closed.
Sender(sk, c) == IF sk[c] = "connected" THEN {c} ELSE {}

\* One emit call: the event, the room (or the sender's own socket), the sockets it is
\* delivered to, and its origin: the connection whose handler emitted it, the position
\* of that handler among the suspended handlers of its connection, and its payload
\* (organizationId, priority and status are "-" for the events where they are not modelled).
Emission(ev, room, to, from, pos, h) ==
    [ev |-> ev, room |-> room, to |-> to, from |-> from, pos |-> pos,
     userId |-> h.userId, location |-> h.location, organizationId |-> "-",
     priority |-> "-", status |-> "-"]

ToSender(sk, c, ev, pos, h) == Emission(ev, <<"socket", c>>, Sender(sk, c), c, pos, h)

ToRoom(rm, sk, room, ev, c, pos, h) == Emission(ev, room, Recipients(rm, sk, room), c, pos, h)

Call(fn, u, loc) == [fn |-> fn, userId |-> u, location |-> loc]

\* The history variable sessions after a segment that emitted o: a tracking_started to an
\* organization room opens the session of its connection in that room, a tracking_stopped
\* or user_disconnected of the connection to that room closes it.
Announced(open, o) ==
    LET opened == {<<o[k].from, o[k].room>> :
                       k \in {j \in DOMAIN o : /\ o[j].ev = "tracking_started"
                                                /\ o[j].room[1] = "org"}}
        closed == {<<o[k].from, o[k].room>> :
                       k \in {j \in DOMAIN o : /\ o[j].ev \in {"tracking_stopped", "user_disconnected"}
                                                /\ o[j].room[1] = "org"}}
    IN (open \cup opened) \ closed

\* The insertion order of the Sets of organizationRooms after a segment that left the
\* map as orgRooms: Set.delete takes the id out, Set.add appends an id that is not a
\* member and leaves a member where it is; a Set that was deleted from the map and
\* created again starts empty.  A segment adds at most one id.
Inserted(order, orgRooms) ==
    IF DOMAIN orgRooms = {} THEN <<>>
    ELSE [o \in DOMAIN orgRooms |->
             LET before == IF o \in DOMAIN order THEN order[o] ELSE <<>>
                 kept == SelectSeq(before, LAMBDA x : x \in orgRooms[o])
                 added == orgRooms[o] \ {kept[k] : k \in DOMAIN kept}
             IN IF added = {} THEN kept ELSE Append(kept, CHOOSE x \in added : TRUE)]

\* A suspended handler: its event, the await it is suspended at (of the persistence
\* function it called, while it is in one), its payload, and the document the findOne of
\* its persistence function returned (doc, 0 for null or not yet).  org is
\* the organizationId of the record object the handler holds (of the decoded token, for
\* authenticate); live says that object is still the one stored in activeConnections,
\* inSnapshot that it is not, and is one of the objects in the array that a running
\* getActiveTrackingUsers took from getActiveConnections.
Handler(ev, pc, u, loc, act, org, live) ==
    [ev |-> ev, pc |-> pc, userId |-> u, location |-> loc,
     isActive |-> act, org |-> org, live |-> live, inSnapshot |-> FALSE,
     priority |-> NoPriority, doc |-> 0]

RemoveAt(s, i) == [j \in 1..(Len(s) - 1) |-> IF j < i THEN s[j] ELSE s[j + 1]]

\* The record object in activeConnections was replaced or deleted: handlers keep the old
\* one (held: the array of a running query keeps it too).
Detach(s, held) ==
    [j \in DOMAIN s |-> IF s[j].live
                        THEN [s[j] EXCEPT !.live = FALSE, !.inSnapshot = held]
                        ELSE s[j]]

\* The array of a query holds the record object that activeConnections stores for c.
Holds(q, c) == \E j \in DOMAIN q.snapshot : q.snapshot[j] = c /\ q.records[j].live

\* The record object of c was replaced or deleted: the array of the query keeps the old one.
Release(q, c) ==
    [q EXCEPT !.records =
        [j \in DOMAIN q.records |->
            IF q.snapshot[j] = c THEN [q.records[j] EXCEPT !.live = FALSE] ELSE q.records[j]]]

\* `connection.isTracking = ...` by a handler of c: the array of the query sees it when it
\* holds the object the handler holds, the stored one or the one both kept.
TouchSnapshot(q, c, h, tracking) ==
    [q EXCEPT !.records =
        [j \in DOMAIN q.records |->
            IF /\ q.snapshot[j] = c
               /\ \/ h.live /\ q.records[j].live
                  \/ ~h.live /\ h.inSnapshot /\ ~q.records[j].live
            THEN [q.records[j] EXCEPT !.isTracking = tracking]
            ELSE q.records[j]]]

RECURSIVE Suspended(_)
Suspended(S) ==
    IF S = {} THEN 0
    ELSE LET c == CHOOSE x \in S : TRUE IN Len(inflight[c]) + Suspended(S \ {c})

\* The exploration takes one more inbound event.
Within(n) == arrived < n /\ Suspended(Conns) < MaxInFlight

\* socket.io dispatches an event to its handler only while the socket is connected.
Accepting(c) == sockets[c] = "connected"

\* -------------------------------------------------------------------- init
Init ==
    /\ sockets = [c \in Conns |-> "new"]
    /\ rooms = [r \in RoomNames |-> {}]
    /\ activeConnections = <<>>
    /\ organizationRooms = <<>>
    /\ insertion = <<>>
    /\ inflight = [c \in Conns |-> <<>>]
    /\ arrived = 0
    /\ out = <<>>
    /\ db = <<>>
    /\ query = NoQuery
    /\ sessions = {}
    /\ store = <<>>
    /\ bridge = <<>>

\* io.on("connection", socket => ...)
Connect(c) ==
    /\ sockets[c] = "new"
    /\ sockets' = [sockets EXCEPT ![c] = "connected"]
    /\ out' = <<>>
    /\ db' = <<>>
    /\ UNCHANGED <<rooms, activeConnections, organizationRooms, inflight, arrived>>
    /\ UNCHANGED <<query, store, bridge>>
    /\ sessions' = Announced(sessions, out')
    /\ insertion' = Inserted(insertion, organizationRooms')

\* ------------------------------------------------------------ authenticate
\* socket.on("authenticate"), up to `await socket.join(userRoom)`.
Authenticate(c, token) ==
    /\ Accepting(c)
    /\ arrived' = arrived + 1
    /\ db' = <<>>
    /\ LET decoded == VerifyAccessToken(token) IN
       IF decoded = Invalid
       THEN /\ out' = <<ToSender(sockets, c, "auth_error", Len(inflight[c]) + 1,
                                 Handler("authenticate", "verify", NoUser, NoLocation, FALSE, "-", FALSE))>>
            /\ UNCHANGED <<sockets, rooms, activeConnections, organizationRooms, inflight>>
       ELSE /\ rooms' = Join(rooms, c, UserRoom(decoded.userId))
            /\ inflight' = [inflight EXCEPT ![c] =
                   Append(@, Handler("authenticate", "joinUser", decoded.userId,
                                     NoLocation, FALSE, decoded.organizationId, FALSE))]
            /\ out' = <<>>
            /\ UNCHANGED <<sockets, activeConnections, organizationRooms>>
    /\ UNCHANGED <<query, store, bridge>>
    /\ sessions' = Announced(sessions, out')
    /\ insertion' = Inserted(insertion, organizationRooms')

\* ... resumed, up to `await socket.join(orgRoom)`.
AuthenticateJoinOrg(c, i) ==
    /\ i \in DOMAIN inflight[c]
    /\ inflight[c][i].ev = "authenticate" /\ inflight[c][i].pc = "joinUser"
    /\ rooms' = Join(rooms, c, OrgRoom(inflight[c][i].org))
    /\ inflight' = [inflight EXCEPT ![c] = [@ EXCEPT ![i].pc = "joinOrg"]]
    /\ out' = <<>>
    /\ db' = <<>>
    /\ UNCHANGED <<sockets, activeConnections, organizationRooms, arrived>>
    /\ UNCHANGED <<query, store, bridge>>
    /\ sessions' = Announced(sessions, out')
    /\ insertion' = Inserted(insertion, organizationRooms')

\* organizationRooms after `if (!has(org)) set(org, new Set()); get(org).add(socket.id)`.
AddToOrganization(orgRooms, o, c) ==
    IF o \in DOMAIN orgRooms
    THEN [orgRooms EXCEPT ![o] = @ \cup {c}]
    ELSE (o :> {c}) @@ orgRooms

\* ... resumed: store the connection record, add to the organization set, acknowledge.
AuthenticateFinish(c, i) ==
    /\ i \in DOMAIN inflight[c]
    /\ inflight[c][i].ev = "authenticate" /\ inflight[c][i].pc = "joinOrg"
    /\ LET h == inflight[c][i] IN
       /\ activeConnections' =
              (c :> [userId |-> h.userId, organizationId |-> h.org,
                     isTracking |-> FALSE, lastUpdate |-> 0]) @@ activeConnections
       /\ organizationRooms' = AddToOrganization(organizationRooms, h.org, c)
       /\ inflight' = [inflight EXCEPT ![c] = Detach(RemoveAt(@, i), Holds(query, c))]
       /\ out' = <<ToSender(sockets, c, "authenticated", i, h)>>
    /\ query' = Release(query, c)
    /\ db' = <<>>
    /\ UNCHANGED <<sockets, rooms, arrived>>
    /\ UNCHANGED <<store, bridge>>
    /\ sessions' = Announced(sessions, out')
    /\ insertion' = Inserted(insertion, organizationRooms')

\* -------------------------------------------------------------- disconnect
\* Mutant of RemoveFromOrganization: the entry of an emptied set is not deleted.
RemoveFromOrganizationKeepEmpty(orgRooms, o, c) ==
    IF o \notin DOMAIN orgRooms THEN orgRooms
    ELSE [orgRooms EXCEPT ![o] = @ \ {c}]

\* organizationRooms after `orgRoom.delete(socket.id); if (orgRoom.size === 0) delete(org)`.
RemoveFromOrganization(orgRooms, o, c) ==
    IF o \notin DOMAIN orgRooms THEN orgRooms
    ELSE IF orgRooms[o] \ {c} = {}
         THEN [k \in DOMAIN orgRooms \ {o} |-> orgRooms[k]]
         ELSE [orgRooms EXCEPT ![o] = @ \ {c}]

\* `if (connection.isTracking)` of the disconnect handler.
NotifyOnDisconnect(rec) == rec.isTracking

\* Mutant of OnDisconnect: the handler has no `if (connection)` guard and sweeps the
\* socket id out of every organization set.
OnDisconnectSweep(maps, c) ==
    [activeConnections |->
         [k \in DOMAIN maps.activeConnections \ {c} |-> maps.activeConnections[k]],
     organizationRooms |->
         [o \in {x \in DOMAIN maps.organizationRooms : maps.organizationRooms[x] \ {c} # {}}
              |-> maps.organizationRooms[o] \ {c}],
     notified |-> c \in DOMAIN maps.activeConnections]

\* The "disconnect" listener as a function of the two maps: the maps after it, and
\* whether it emitted user_disconnected.
OnDisconnect(maps, c) ==
    IF c \in DOMAIN maps.activeConnections
    THEN LET rec == maps.activeConnections[c] IN
         [activeConnections |->
              [k \in DOMAIN maps.activeConnections \ {c} |-> maps.activeConnections[k]],
          organizationRooms |->
              RemoveFromOrganization(maps.organizationRooms, rec.organizationId, c),
          notified |-> NotifyOnDisconnect(rec)]
    ELSE [activeConnections |-> maps.activeConnections,
          organizationRooms |-> maps.organizationRooms,
          notified |-> FALSE]

\* The transport closes (any reason): socket.io leaves all rooms, then socket.on("disconnect").
Disconnect(c) ==
    /\ sockets[c] = "connected"
    /\ sockets' = [sockets EXCEPT ![c] = "disconnected"]
    /\ rooms' = LeaveAll(rooms, c)
    /\ db' = <<>>
    /\ IF IsAuthenticated(c)
       THEN LET rec == activeConnections[c] IN
            /\ organizationRooms' = RemoveFromOrganization(organizationRooms, rec.organizationId, c)
            /\ out' = IF NotifyOnDisconnect(rec)
                      THEN <<ToRoom(rooms', sockets', OrgRoom(rec.organizationId),
                                    "user_disconnected", c, 0,
                                    Handler("disconnect", "", rec.userId, NoLocation,
                                            rec.isTracking, rec.organizationId, TRUE))>>
                      ELSE <<>>
            /\ activeConnections' = [k \in DOMAIN activeConnections \ {c} |-> activeConnections[k]]
            /\ inflight' = [inflight EXCEPT ![c] = Detach(@, Holds(query, c))]
            /\ query' = Release(query, c)
       ELSE /\ out' = <<>>
            /\ UNCHANGED <<activeConnections, organizationRooms, inflight, query>>
    /\ UNCHANGED arrived
    /\ UNCHANGED <<store, bridge>>
    /\ sessions' = Announced(sessions, out')
    /\ insertion' = Inserted(insertion, organizationRooms')

\* `socket.emit("error", { message: "Not authenticated" }); return;`
Reject(c, h) == ToSender(sockets, c, "error:Not authenticated", Len(inflight[c]) + 1, h)

\* ------------------------------------------------ LocationTracking collection
\* data.location of the calls that are explored: one in range, one out of range.
StoreLocations == FanoutLocations

\* LocationTracking.findOne({userId, isActive: true}): the position of the first matching
\* document, 0 for null.
FindActive(docs, u) ==
    LET hits == {k \in DOMAIN docs : docs[k].userId = u /\ docs[k].isActive}
    IN IF hits = {} THEN 0 ELSE CHOOSE k \in hits : \A j \in hits : k <= j

\* A suspended call of a persistence function: pc is the query it awaits, doc the
\* document its findOne returned.
Pending(fn, pc, u, loc, act) ==
    [fn |-> fn, pc |-> pc, userId |-> u, location |-> loc, isActive |-> act, doc |-> 0]

\* The functions that assign `location` to the document they loaded.
AssignsLocation == {"updateLocationInDatabase", "TrackingService.updateLocation"}

\* The functions that return without a write when findOne gave null, and the one that
\* returns without a write when it gave a document.
ReturnsOnNull == {"stopTrackingInDatabase", "TrackingService.stopTracking"}
ReturnsOnFound == {"TrackingService.startTracking"}

\* The document a save() of a loaded document leaves: the modified paths are written.
\* The document was loaded with isActive true, so isActive is written only when the call
\* assigned false; only the location updates assign location.
Updated(doc, call) ==
    [userId |-> doc.userId,
     location |-> IF call.fn \in AssignsLocation THEN call.location ELSE doc.location,
     isActive |-> IF call.isActive THEN doc.isActive ELSE FALSE]

\* The document `new LocationTracking({...})` of the call.
Created(call) ==
    [userId |-> call.userId, location |-> call.location, isActive |-> call.isActive]

\* The collection after save() of the call whose findOne returned call.doc: the schema
\* validators reject a location out of range and nothing is written; otherwise the loaded
\* document is updated, or the new one inserted.
Save(docs, call) ==
    IF ~ValidLocation(call.location) THEN docs
    ELSE IF call.doc # 0
         THEN [docs EXCEPT ![call.doc] = Updated(docs[call.doc], call)]
         ELSE Append(docs, Created(call))

\* The call of persistence function fn that handler h is suspended in.
CallOf(fn, h) ==
    [Pending(fn, h.pc, h.userId, h.location, h.isActive) EXCEPT !.doc = h.doc]

\* --------------------------------------------------------- location_update
\* `connection.isTracking = data.isActive; connection.lastUpdate = new Date()` on the
\* record object the handler holds: visible in the registry only while that object is
\* still the stored one.  lastUpdate counts the reassignments (the clock is not modelled).
Touch(conns, c, live, tracking, stamp) ==
    IF live /\ c \in DOMAIN conns
    THEN [conns EXCEPT ![c].isTracking = tracking,
                       ![c].lastUpdate = IF stamp THEN @ + 1 ELSE @]
    ELSE conns

\* socket.on("location_update"), into updateLocationInDatabase(data) up to its
\* `await LocationTracking.findOne(...)`.
LocationUpdate(c, u, loc, act) ==
    /\ Accepting(c)
    /\ arrived' = arrived + 1
    /\ IF ~IsAuthenticated(c)
       THEN /\ out' = <<Reject(c, Handler("location_update", "start", u, loc, act, "-", FALSE))>>
            /\ db' = <<>>
            /\ UNCHANGED inflight
       ELSE /\ inflight' = [inflight EXCEPT ![c] =
                   Append(@, Handler("location_update", "findOne", u, loc, act,
                                     OrganizationOf(c), TRUE))]
            /\ db' = <<Call("updateLocationInDatabase", u, loc)>>
            /\ out' = <<>>
    /\ UNCHANGED <<sockets, rooms, activeConnections, organizationRooms>>
    /\ UNCHANGED <<query, store, bridge>>
    /\ sessions' = Announced(sessions, out')
    /\ insertion' = Inserted(insertion, organizationRooms')

\* findOne of the persistence function of handler i of c resolves (stored) with the
\* active document of the userId at this moment, or null: the function assigns the fields
\* and awaits save(), or returns when it has nothing to save (a stop on null).  Or findOne
\* rejects: the function throws and the catch of the handler reports err to the sender.
FoundTracking(c, i, fn, stored, err) ==
    /\ i \in DOMAIN inflight[c]
    /\ inflight[c][i].pc = "findOne"
    /\ LET found == FindActive(store, inflight[c][i].userId) IN
       IF ~stored
       THEN /\ inflight' = [inflight EXCEPT ![c] = RemoveAt(@, i)]
            /\ db' = <<>>
            /\ out' = <<ToSender(sockets, c, err, i, inflight[c][i])>>
       ELSE IF found = 0 /\ fn \in ReturnsOnNull
       THEN /\ inflight' = [inflight EXCEPT ![c][i].pc = "return"]
            /\ db' = <<>>
            /\ out' = <<>>
       ELSE /\ inflight' = [inflight EXCEPT ![c][i].pc = "save", ![c][i].doc = found]
            /\ db' = <<Call("save", inflight[c][i].userId, inflight[c][i].location)>>
            /\ out' = <<>>
    /\ UNCHANGED <<sockets, rooms, activeConnections, organizationRooms, arrived>>
    /\ UNCHANGED <<query, store, bridge>>
    /\ sessions' = Announced(sessions, out')
    /\ insertion' = Inserted(insertion, organizationRooms')

\* updateLocationInDatabase after its findOne, up to `await ....save()`.
LocationUpdateFound(c, i, stored) ==
    /\ i \in DOMAIN inflight[c]
    /\ inflight[c][i].ev = "location_update"
    /\ FoundTracking(c, i, "updateLocationInDatabase", stored, "error:Failed to update location")

\* updateLocationInDatabase resolves when save() passed the schema validators and the
\* store accepted the write (stored); it rejects otherwise.
Persisted(loc, stored) == ValidLocation(loc) /\ stored

\* save() resolves or rejects and the handler is resumed after the persistence call:
\* broadcast and update the record, or report.
LocationUpdateResume(c, i, stored) ==
    /\ i \in DOMAIN inflight[c]
    /\ inflight[c][i].ev = "location_update" /\ inflight[c][i].pc = "save"
    /\ LET h == inflight[c][i] IN
       IF Persisted(h.location, stored)
       THEN /\ out' = <<ToRoom(rooms, sockets, OrgRoom(h.org), "location_updated", c, i, h),
                        ToRoom(rooms, sockets, CustomerRoom(h.userId),
                               "delivery_location_update", c, i, h)>>
            /\ activeConnections' = Touch(activeConnections, c, h.live, h.isActive, TRUE)
            /\ query' = TouchSnapshot(query, c, h, h.isActive)
            /\ store' = Save(store, CallOf("updateLocationInDatabase", h))
       ELSE /\ out' = <<ToSender(sockets, c, "error:Failed to update location", i, h)>>
            /\ UNCHANGED <<activeConnections, query, store>>
    /\ inflight' = [inflight EXCEPT ![c] = RemoveAt(@, i)]
    /\ db' = <<>>
    /\ UNCHANGED <<sockets, rooms, organizationRooms, arrived>>
    /\ UNCHANGED bridge
    /\ sessions' = Announced(sessions, out')
    /\ insertion' = Inserted(insertion, organizationRooms')

\* ---------------------------------------------------------- start_tracking
\* socket.on("start_tracking"), into startTrackingInDatabase(...) up to its
\* `await User.findById(userId)`.
StartTracking(c, u) ==
    /\ Accepting(c)
    /\ arrived' = arrived + 1
    /\ IF ~IsAuthenticated(c)
       THEN /\ out' = <<Reject(c, Handler("start_tracking", "start", u, NoLocation, TRUE, "-", FALSE))>>
            /\ db' = <<>>
            /\ UNCHANGED inflight
       ELSE /\ inflight' = [inflight EXCEPT ![c] =
                   Append(@, Handler("start_tracking", "findById", u, NoLocation, TRUE,
                                     OrganizationOf(c), TRUE))]
            /\ db' = <<Call("startTrackingInDatabase", u, NoLocation)>>
            /\ out' = <<>>
    /\ UNCHANGED <<sockets, rooms, activeConnections, organizationRooms>>
    /\ UNCHANGED <<query, store, bridge>>
    /\ sessions' = Announced(sessions, out')
    /\ insertion' = Inserted(insertion, organizationRooms')

\* startTrackingInDatabase after User.findById (stored: it found the user): up to
\* `await LocationTracking.findOne(...)`, or it throws 'User not found' and the handler
\* reports.
StartTrackingUserRead(c, i, stored) ==
    /\ i \in DOMAIN inflight[c]
    /\ inflight[c][i].ev = "start_tracking" /\ inflight[c][i].pc = "findById"
    /\ LET h == inflight[c][i] IN
       IF stored
       THEN /\ inflight' = [inflight EXCEPT ![c][i].pc = "findOne"]
            /\ db' = <<Call("LocationTracking.findOne", h.userId, NoLocation)>>
            /\ out' = <<>>
       ELSE /\ inflight' = [inflight EXCEPT ![c] = RemoveAt(@, i)]
            /\ db' = <<>>
            /\ out' = <<ToSender(sockets, c, "error:Failed to start tracking", i, h)>>
    /\ UNCHANGED <<sockets, rooms, activeConnections, organizationRooms, arrived>>
    /\ UNCHANGED <<query, store, bridge>>
    /\ sessions' = Announced(sessions, out')
    /\ insertion' = Inserted(insertion, organizationRooms')

\* startTrackingInDatabase after its findOne, up to `await ....save()`.
StartTrackingFound(c, i, stored) ==
    /\ i \in DOMAIN inflight[c]
    /\ inflight[c][i].ev = "start_tracking"
    /\ FoundTracking(c, i, "startTrackingInDatabase", stored, "error:Failed to start tracking")

\* Mutant of StartTrackingResume: `connection.isTracking = true` is assigned before the
\* outcome of startTrackingInDatabase is known.
StartTrackingResumeEager(c, i, stored) ==
    /\ i \in DOMAIN inflight[c]
    /\ inflight[c][i].ev = "start_tracking" /\ inflight[c][i].pc = "save"
    /\ LET h == inflight[c][i] IN
       /\ activeConnections' = Touch(activeConnections, c, h.live, TRUE, FALSE)
       /\ query' = TouchSnapshot(query, c, h, TRUE)
       /\ IF stored
          THEN /\ out' = <<ToRoom(rooms, sockets, OrgRoom(h.org), "tracking_started", c, i, h)>>
               /\ rooms' = Join(rooms, c, CustomerRoom(h.userId))
               /\ inflight' = [inflight EXCEPT ![c][i].pc = "joinCustomer"]
               /\ store' = Save(store, CallOf("startTrackingInDatabase", h))
          ELSE /\ out' = <<ToSender(sockets, c, "error:Failed to start tracking", i, h)>>
               /\ inflight' = [inflight EXCEPT ![c] = RemoveAt(@, i)]
               /\ UNCHANGED <<rooms, store>>
    /\ db' = <<>>
    /\ UNCHANGED <<sockets, organizationRooms, arrived>>
    /\ UNCHANGED bridge
    /\ sessions' = Announced(sessions, out')
    /\ insertion' = Inserted(insertion, organizationRooms')

\* save() resolves (stored) or rejects and the handler is resumed: set isTracking, notify
\* the organization, up to `await socket.join(customerRoom)`; or report.
StartTrackingResume(c, i, stored) ==
    /\ i \in DOMAIN inflight[c]
    /\ inflight[c][i].ev = "start_tracking" /\ inflight[c][i].pc = "save"
    /\ LET h == inflight[c][i] IN
       IF stored
       THEN /\ activeConnections' = Touch(activeConnections, c, h.live, TRUE, FALSE)
            /\ out' = <<ToRoom(rooms, sockets, OrgRoom(h.org), "tracking_started", c, i, h)>>
            /\ rooms' = Join(rooms, c, CustomerRoom(h.userId))
            /\ inflight' = [inflight EXCEPT ![c][i].pc = "joinCustomer"]
            /\ query' = TouchSnapshot(query, c, h, TRUE)
            /\ store' = Save(store, CallOf("startTrackingInDatabase", h))
       ELSE /\ out' = <<ToSender(sockets, c, "error:Failed to start tracking", i, h)>>
            /\ inflight' = [inflight EXCEPT ![c] = RemoveAt(@, i)]
            /\ UNCHANGED <<activeConnections, rooms, query, store>>
    /\ db' = <<>>
    /\ UNCHANGED <<sockets, organizationRooms, arrived>>
    /\ UNCHANGED bridge
    /\ sessions' = Announced(sessions, out')
    /\ insertion' = Inserted(insertion, organizationRooms')

\* ... resumed: notify the customer room and acknowledge.
StartTrackingFinish(c, i) ==
    /\ i \in DOMAIN inflight[c]
    /\ inflight[c][i].ev = "start_tracking" /\ inflight[c][i].pc = "joinCustomer"
    /\ LET h == inflight[c][i] IN
       out' = <<ToRoom(rooms, sockets, CustomerRoom(h.userId),
                       "delivery_tracking_started", c, i, h),
                ToSender(sockets, c, "tracking_started", i, h)>>
    /\ inflight' = [inflight EXCEPT ![c] = RemoveAt(@, i)]
    /\ db' = <<>>
    /\ UNCHANGED <<sockets, rooms, activeConnections, organizationRooms, arrived>>
    /\ UNCHANGED <<query, store, bridge>>
    /\ sessions' = Announced(sessions, out')
    /\ insertion' = Inserted(insertion, organizationRooms')

\* ----------------------------------------------------------- stop_tracking
\* socket.on("stop_tracking"), into stopTrackingInDatabase(data.userId) up to its
\* `await LocationTracking.findOne(...)`.
StopTracking(c, u) ==
    /\ Accepting(c)
    /\ arrived' = arrived + 1
    /\ IF ~IsAuthenticated(c)
       THEN /\ out' = <<Reject(c, Handler("stop_tracking", "start", u, NoLocation, FALSE, "-", FALSE))>>
            /\ db' = <<>>
            /\ UNCHANGED inflight
       ELSE /\ inflight' = [inflight EXCEPT ![c] =
                   Append(@, Handler("stop_tracking", "findOne", u, NoLocation, FALSE,
                                     OrganizationOf(c), TRUE))]
            /\ db' = <<Call("stopTrackingInDatabase", u, NoLocation)>>
            /\ out' = <<>>
    /\ UNCHANGED <<sockets, rooms, activeConnections, organizationRooms>>
    /\ UNCHANGED <<query, store, bridge>>
    /\ sessions' = Announced(sessions, out')
    /\ insertion' = Inserted(insertion, organizationRooms')

\* stopTrackingInDatabase after its findOne: up to `await tracking.save()`, or to its
\* return when there is no active document.
StopTrackingFound(c, i, stored) ==
    /\ i \in DOMAIN inflight[c]
    /\ inflight[c][i].ev = "stop_tracking"
    /\ FoundTracking(c, i, "stopTrackingInDatabase", stored, "error:Failed to stop tracking")

\* save() resolves (stored) or rejects, or the function returned without one (it cannot
\* fail any more), and the handler is resumed: clear isTracking, notify the organization
\* and acknowledge; or report.
StopTrackingResume(c, i, stored) ==
    /\ i \in DOMAIN inflight[c]
    /\ inflight[c][i].ev = "stop_tracking" /\ inflight[c][i].pc \in {"save", "return"}
    /\ inflight[c][i].pc = "return" => stored
    /\ LET h == inflight[c][i] IN
       IF stored
       THEN /\ activeConnections' = Touch(activeConnections, c, h.live, FALSE, FALSE)
            /\ out' = <<ToRoom(rooms, sockets, OrgRoom(h.org), "tracking_stopped", c, i, h),
                        ToSender(sockets, c, "tracking_stopped", i, h)>>
            /\ query' = TouchSnapshot(query, c, h, FALSE)
            /\ store' = IF h.pc = "save"
                        THEN Save(store, CallOf("stopTrackingInDatabase", h))
                        ELSE store
       ELSE /\ out' = <<ToSender(sockets, c, "error:Failed to stop tracking", i, h)>>
            /\ UNCHANGED <<activeConnections, query, store>>
    /\ inflight' = [inflight EXCEPT ![c] = RemoveAt(@, i)]
    /\ db' = <<>>
    /\ UNCHANGED <<sockets, rooms, organizationRooms, arrived>>
    /\ UNCHANGED bridge
    /\ sessions' = Announced(sessions, out')
    /\ insertion' = Inserted(insertion, organizationRooms')

\* ------------------------------------------------------- emergency_request
\* socket.on("emergency_request"), up to `await this.createEmergencyRequest(...)`.
EmergencyRequestWith(c, u, priority) ==
    /\ Accepting(c)
    /\ arrived' = arrived + 1
    /\ IF ~IsAuthenticated(c)
       THEN /\ out' = <<Reject(c, Handler("emergency_request", "start", u, NoLocation, FALSE, "-", FALSE))>>
            /\ db' = <<>>
            /\ UNCHANGED inflight
       ELSE /\ inflight' = [inflight EXCEPT ![c] =
                   Append(@, [Handler("emergency_request", "create", u, NoLocation, FALSE,
                                      OrganizationOf(c), TRUE) EXCEPT !.priority = priority])]
            /\ db' = <<Call("createEmergencyRequest", u, NoLocation)>>
            /\ out' = <<>>
    /\ UNCHANGED <<sockets, rooms, activeConnections, organizationRooms>>
    /\ UNCHANGED <<query, store, bridge>>
    /\ sessions' = Announced(sessions, out')
    /\ insertion' = Inserted(insertion, organizationRooms')

\* An emergency_request whose payload has no priority.
EmergencyRequest(c, u) == EmergencyRequestWith(c, u, NoPriority)

\* `priority: data.priority || "medium"`
PriorityOrDefault(priority) == IF priority \in {NoPriority, ""} THEN "medium" ELSE priority

\* Mutant of EmergencyData: the organization is taken from the user named in the payload.
EmergencyDataOfPayloadUser(h) ==
    [userId |-> h.userId, organizationId |-> IF h.userId = "u2" THEN "org2" ELSE "org1",
     priority |-> PriorityOrDefault(h.priority), status |-> "pending"]

\* createEmergencyRequest({userId: data.userId, organizationId: connection.organizationId, ...}):
\* returns what it was given.
EmergencyData(h) ==
    [userId |-> h.userId, organizationId |-> h.org,
     priority |-> PriorityOrDefault(h.priority), status |-> "pending"]

\* ... resumed: alert the organization and acknowledge (createEmergencyRequest never throws).
EmergencyRequestResume(c, i) ==
    /\ i \in DOMAIN inflight[c]
    /\ inflight[c][i].ev = "emergency_request"
    /\ LET h == inflight[c][i] IN
       out' = <<[ToRoom(rooms, sockets, OrgRoom(h.org), "emergency_alert", c, i, h)
                    EXCEPT !.userId = EmergencyData(h).userId,
                           !.organizationId = EmergencyData(h).organizationId,
                           !.priority = EmergencyData(h).priority,
                           !.status = EmergencyData(h).status],
                ToSender(sockets, c, "emergency_sent", i, h)>>
    /\ inflight' = [inflight EXCEPT ![c] = RemoveAt(@, i)]
    /\ db' = <<>>
    /\ UNCHANGED <<sockets, rooms, activeConnections, organizationRooms, arrived>>
    /\ UNCHANGED <<query, store, bridge>>
    /\ sessions' = Announced(sessions, out')
    /\ insertion' = Inserted(insertion, organizationRooms')

\* ------------------------------------------------------------ other events
\* A client event other than authenticate, location_update, start_tracking, stop_tracking
\* and emergency_request, here a customer's request to watch delivery user u: the socket
\* has no listener for it (socket.on is called for those five and "disconnect" only).
WatchJoin(c, u) ==
    /\ Accepting(c)
    /\ arrived' = arrived + 1
    /\ out' = <<>>
    /\ db' = <<>>
    /\ UNCHANGED <<sockets, rooms, activeConnections, organizationRooms, inflight, query, store, bridge>>
    /\ sessions' = Announced(sessions, out')
    /\ insertion' = Inserted(insertion, organizationRooms')

\* ---------------------------------------------------------- administrative push
\* sendToUser(userId, event, data): `this.io.to(`user_${userId}`).emit(event, data)`,
\* called by POST /user/:userId/message with the event "admin_message".
SendToUser(u) ==
    /\ out' = <<ToRoom(rooms, sockets, UserRoom(u), "admin_message", "server", 0,
                       Handler("sendToUser", "", u, NoLocation, FALSE, "-", FALSE))>>
    /\ db' = <<>>
    /\ UNCHANGED <<sockets, rooms, activeConnections, organizationRooms, inflight, arrived, query, store, bridge>>
    /\ sessions' = Announced(sessions, out')
    /\ insertion' = Inserted(insertion, organizationRooms')

\* sendToOrganization(organizationId, event, data): `this.io.to(`org_${organizationId}`).emit`,
\* called by POST /broadcast with the event "admin_broadcast".
SendToOrganization(o) ==
    /\ out' = <<ToRoom(rooms, sockets, OrgRoom(o), "admin_broadcast", "server", 0,
                       Handler("sendToOrganization", "", NoUser, NoLocation, FALSE, o, FALSE))>>
    /\ db' = <<>>
    /\ UNCHANGED <<sockets, rooms, activeConnections, organizationRooms, inflight, arrived, query, store, bridge>>
    /\ sessions' = Announced(sessions, out')
    /\ insertion' = Inserted(insertion, organizationRooms')

\* The events the administrative pushes are called with.
PushEvents == {"admin_message", "admin_broadcast"}

\* broadcast(event, data): `this.io.emit(event, data)`, to every connected socket.
Broadcast(ev) ==
    /\ out' = <<Emission(ev, <<"all", "*">>, {x \in Conns : sockets[x] = "connected"},
                         "server", 0,
                         Handler("broadcast", "", NoUser, NoLocation, FALSE, "-", FALSE))>>
    /\ db' = <<>>
    /\ UNCHANGED <<sockets, rooms, activeConnections, organizationRooms, inflight, arrived, query, store, bridge>>
    /\ sessions' = Announced(sessions, out')
    /\ insertion' = Inserted(insertion, organizationRooms')

\* ------------------------------------------------------------------- query
\* getActiveConnections(organizationId): the records of the ids in the organization set.
GetActiveConnections(o) ==
    IF o \notin DOMAIN organizationRooms THEN {}
    ELSE {c \in organizationRooms[o] : c \in DOMAIN activeConnections}

\* `connection.isTracking` of the records of getActiveConnections(organizationId), all
\* read at one moment: the connections of the organization whose record says isTracking.
TrackingConnections(o) == {c \in GetActiveConnections(o) : activeConnections[c].isTracking}

\* Array.from(orgConnections) of getActiveConnections(organizationId): the ids of the
\* organization's Set in insertion order; the ids without a record are filtered out.
ArrayFrom(o) ==
    IF o \notin DOMAIN insertion THEN <<>>
    ELSE SelectSeq(insertion[o], LAMBDA c : c \in DOMAIN activeConnections)

\* The array getActiveConnections returns: the record objects themselves; live says the
\* object is still the one stored in activeConnections.
RecordsOf(snapshot) ==
    [j \in DOMAIN snapshot |-> [userId |-> activeConnections[snapshot[j]].userId,
                                isTracking |-> activeConnections[snapshot[j]].isTracking,
                                live |-> TRUE]]

\* `if (connection.isTracking)` on the j-th record object of the array, whether or not
\* its connection disconnected or authenticated again since the call.
RecordSaysTracking(q, j) == q.records[j].isTracking

\* `for (const connection of activeConnections)`: the loop runs on without suspending
\* over the records that do not say isTracking; the index it stops at.
RECURSIVE NextTracking(_, _)
NextTracking(q, j) ==
    IF j > Len(q.snapshot) THEN j
    ELSE IF RecordSaysTracking(q, j) THEN j
    ELSE NextTracking(q, j + 1)

\* `await User.findById(connection.userId)` for the record the loop stopped at, if any.
FindUser(q, p) ==
    IF p > Len(q.snapshot) THEN <<>>
    ELSE <<Call("User.findById", q.records[p].userId, NoLocation)>>

\* getActiveTrackingUsers(organizationId) is called: getActiveConnections takes the array
\* of records, and the loop runs up to its first `await User.findById(...)`.  atCall
\* remembers the connections whose record said isTracking at this moment.
QueryStart(o) ==
    /\ query.pc = "idle"
    /\ LET snapshot == ArrayFrom(o)
           q == [pc |-> "user", org |-> o, snapshot |-> snapshot,
                 records |-> RecordsOf(snapshot), pos |-> 0, user |-> FALSE,
                 visited |-> <<>>, atCall |-> TrackingConnections(o)]
           p == NextTracking(q, 1)
       IN /\ query' = [q EXCEPT !.pc = IF p > Len(snapshot) THEN "done" ELSE "user",
                                !.pos = p]
          /\ db' = FindUser(q, p)
    /\ out' = <<>>
    /\ UNCHANGED <<sockets, rooms, activeConnections, organizationRooms, inflight, arrived>>
    /\ UNCHANGED <<store, bridge>>
    /\ sessions' = Announced(sessions, out')
    /\ insertion' = Inserted(insertion, organizationRooms')

\* ... resumed after User.findById (stored: it found the user), up to
\* `await LocationTracking.findOne(...)`.
QueryUserRead(stored) ==
    /\ query.pc = "user"
    /\ query' = [query EXCEPT !.pc = "tracking", !.user = stored]
    /\ out' = <<>>
    /\ db' = <<Call("LocationTracking.findOne", query.records[query.pos].userId, NoLocation)>>
    /\ UNCHANGED <<sockets, rooms, activeConnections, organizationRooms, inflight, arrived>>
    /\ UNCHANGED <<store, bridge>>
    /\ sessions' = Announced(sessions, out')
    /\ insertion' = Inserted(insertion, organizationRooms')

\* ... resumed after LocationTracking.findOne: `if (user && tracking)` the user is pushed,
\* and the loop runs on to the next record that says isTracking now.
QueryTrackingRead ==
    /\ query.pc = "tracking"
    /\ LET p == NextTracking(query, query.pos + 1)
           found == query.user /\ FindActive(store, query.records[query.pos].userId) # 0
       IN
       /\ query' = [query EXCEPT
                       !.visited = Append(@, [conn |-> query.snapshot[query.pos], found |-> found]),
                       !.pos = p,
                       !.user = FALSE,
                       !.pc = IF p > Len(query.snapshot) THEN "done" ELSE "user"]
       /\ db' = FindUser(query, p)
    /\ out' = <<>>
    /\ UNCHANGED <<sockets, rooms, activeConnections, organizationRooms, inflight, arrived>>
    /\ UNCHANGED <<store, bridge>>
    /\ sessions' = Announced(sessions, out')
    /\ insertion' = Inserted(insertion, organizationRooms')

\* The read the loop awaits (User.findById or LocationTracking.findOne) rejects: there is
\* no try/catch in getActiveTrackingUsers, its promise rejects and no array is returned.
QueryRejected ==
    /\ query.pc \in {"user", "tracking"}
    /\ query' = [query EXCEPT !.pc = "rejected"]
    /\ out' = <<>>
    /\ db' = <<>>
    /\ UNCHANGED <<sockets, rooms, activeConnections, organizationRooms, inflight, arrived>>
    /\ UNCHANGED <<store, bridge>>
    /\ sessions' = Announced(sessions, out')
    /\ insertion' = Inserted(insertion, organizationRooms')

\* `return trackingUsers`: the connections whose users were pushed.
TrackingUsers ==
    {query.visited[k].conn : k \in {j \in DOMAIN query.visited : query.visited[j].found}}

\* ------------------------------------------------ the persistence functions
\* The three functions the handlers await and the four of TrackingService behind the
\* HTTP routes that write, run against the LocationTracking collection.  Each await of a query is a
\* suspension: the other calls run meanwhile.

\* A handler calls a persistence function: it runs up to its first await.
InvokeStore(fn, pc, query1, u, loc, act) ==
    /\ bridge' = Append(bridge, Pending(fn, pc, u, loc, act))
    /\ arrived' = arrived + 1
    /\ db' = <<Call(query1, u, loc)>>
    /\ out' = <<>>
    /\ UNCHANGED <<sockets, rooms, activeConnections, organizationRooms, inflight>>
    /\ UNCHANGED <<query, sessions, insertion, store>>

\* updateLocationInDatabase(data), up to `await LocationTracking.findOne(...)`.
UpdateLocationInDatabase(u, loc, act) ==
    InvokeStore("updateLocationInDatabase", "findOne", "LocationTracking.findOne", u, loc, act)

\* startTrackingInDatabase(userId, organizationId), up to `await User.findById(userId)`.
StartTrackingInDatabase(u) ==
    InvokeStore("startTrackingInDatabase", "findById", "User.findById", u, NoLocation, TRUE)

\* stopTrackingInDatabase(userId), up to `await LocationTracking.findOne(...)`.
StopTrackingInDatabase(u) ==
    InvokeStore("stopTrackingInDatabase", "findOne", "LocationTracking.findOne", u, NoLocation, FALSE)

\* TrackingService.updateLocation(userId, locationData), up to `await User.findById(userId)`.
UpdateLocation(u, loc) ==
    InvokeStore("TrackingService.updateLocation", "findById", "User.findById", u, loc, TRUE)

\* TrackingService.startTracking(userId), up to `await User.findById(userId)`.
StartTrackingOf(u) ==
    InvokeStore("TrackingService.startTracking", "findById", "User.findById", u, NoLocation, TRUE)

\* TrackingService.stopTracking(userId), up to `await LocationTracking.findOne(...)`.
StopTrackingOf(u) ==
    InvokeStore("TrackingService.stopTracking", "findOne", "LocationTracking.findOne", u, NoLocation, FALSE)

\* TrackingService.createEmergencyRequest(userId, emergencyData), up to
\* `await User.findById(userId)`.  Its EmergencyRequest is the default export of the
\* tracking model, which is the LocationTracking model.
CreateEmergencyRequest(u, loc) ==
    InvokeStore("TrackingService.createEmergencyRequest", "findById", "User.findById", u, loc, TRUE)

\* The checks of TrackingService.updateLocation on locationData: `!latitude || !longitude`
\* (0 is falsy) and the two ranges; createEmergencyRequest makes the first one only.
LocationDataAccepted(fn, loc) ==
    CASE fn = "TrackingService.updateLocation" ->
             loc[1] # 0 /\ loc[2] # 0 /\ ValidLocation(loc)
      [] fn = "TrackingService.createEmergencyRequest" -> loc[1] # 0 /\ loc[2] # 0
      [] OTHER -> TRUE

\* ... after User.findById (stored: it found the user, and an active one for the functions
\* of TrackingService): the call throws or returns, also when locationData is refused,
\* or goes on to `await LocationTracking.findOne(...)`; createEmergencyRequest goes on
\* to `await emergencyRequest.save()` of a new document.
UserFound(k, stored) ==
    /\ k \in DOMAIN bridge
    /\ bridge[k].pc = "findById"
    /\ IF stored /\ LocationDataAccepted(bridge[k].fn, bridge[k].location)
       THEN IF bridge[k].fn = "TrackingService.createEmergencyRequest"
            THEN /\ bridge' = [bridge EXCEPT ![k].pc = "save"]
                 /\ db' = <<Call("save", bridge[k].userId, bridge[k].location)>>
            ELSE /\ bridge' = [bridge EXCEPT ![k].pc = "findOne"]
                 /\ db' = <<Call("LocationTracking.findOne", bridge[k].userId, NoLocation)>>
       ELSE /\ bridge' = RemoveAt(bridge, k)
            /\ db' = <<>>
    /\ out' = <<>>
    /\ UNCHANGED <<sockets, rooms, activeConnections, organizationRooms, inflight, arrived>>
    /\ UNCHANGED <<query, sessions, insertion, store>>

\* findOne resolves (stored) with the active document of the userId at this moment, or
\* null. The call assigns the fields and awaits save(); the stop functions return on null,
\* and TrackingService.startTracking returns when there is a document.  Or findOne
\* rejects: the call throws (the functions of TrackingService catch and return a failure).
TrackingFound(k, stored) ==
    /\ k \in DOMAIN bridge
    /\ bridge[k].pc = "findOne"
    /\ LET found == FindActive(store, bridge[k].userId)
       IN IF \/ ~stored
             \/ found = 0 /\ bridge[k].fn \in ReturnsOnNull
             \/ found # 0 /\ bridge[k].fn \in ReturnsOnFound
          THEN /\ bridge' = RemoveAt(bridge, k)
               /\ db' = <<>>
          ELSE /\ bridge' = [bridge EXCEPT ![k].pc = "save", ![k].doc = found]
               /\ db' = <<Call("save", bridge[k].userId, bridge[k].location)>>
    /\ out' = <<>>
    /\ UNCHANGED <<sockets, rooms, activeConnections, organizationRooms, inflight, arrived>>
    /\ UNCHANGED <<query, sessions, insertion, store>>

\* save() resolves (stored) or rejects: the schema validators reject a location out of
\* range, or the save fails for another reason (a required path that is missing, the
\* store), and nothing is written; otherwise the loaded document is updated, or the new
\* one inserted.
\* The call returns or throws, except TrackingService.updateLocation, which goes on into
\* addToDailyHistory up to its `await LocationHistory.findOne(...)` (LocationHistory is
\* the LocationTracking model too).  Its argument `user.organizationId!.toString()` is
\* evaluated first: organizationId is optional on a user, and when the user read by
\* findById has none (~org) it throws after the document was written; the catch rethrows
\* and the call ends without entering addToDailyHistory.
Saved(k, stored, org) ==
    /\ k \in DOMAIN bridge
    /\ bridge[k].pc = "save"
    /\ store' = IF stored THEN Save(store, bridge[k]) ELSE store
    /\ IF /\ bridge[k].fn = "TrackingService.updateLocation"
          /\ Persisted(bridge[k].location, stored)
          /\ org
       THEN /\ bridge' = [bridge EXCEPT ![k].pc = "history"]
            /\ db' = <<Call("LocationTracking.findOne", bridge[k].userId, NoLocation)>>
       ELSE /\ bridge' = RemoveAt(bridge, k)
            /\ db' = <<>>
    /\ out' = <<>>
    /\ UNCHANGED <<sockets, rooms, activeConnections, organizationRooms, inflight, arrived>>
    /\ UNCHANGED <<query, sessions, insertion>>

\* addToDailyHistory after its findOne: the object it got, or the one it constructs on
\* null, has no `locations` (not a path of the schema), so `history.locations.push` or
\* `history.locations.length` throws before `history.save()`; the error is caught and
\* logged, and updateLocation returns.
HistoryFound(k) ==
    /\ k \in DOMAIN bridge
    /\ bridge[k].pc = "history"
    /\ bridge' = RemoveAt(bridge, k)
    /\ db' = <<>>
    /\ out' = <<>>
    /\ UNCHANGED <<sockets, rooms, activeConnections, organizationRooms, inflight, arrived>>
    /\ UNCHANGED <<query, sessions, insertion, store>>

\* ---------------------------------------------------------- specifications
\* One client connection, every event with every payload of the bounded input sets.
Next ==
    \/ \E c \in Devices : Connect(c)
    \/ \E c \in Devices, token \in Tokens : Within(MaxEvents) /\ Authenticate(c, token)
    \/ \E c \in Devices, i \in 1..MaxInFlight : AuthenticateJoinOrg(c, i)
    \/ \E c \in Devices, i \in 1..MaxInFlight : AuthenticateFinish(c, i)
    \/ \E c \in Devices, u \in Users, loc \in Locations, act \in BOOLEAN :
           Within(MaxEvents) /\ LocationUpdate(c, u, loc, act)
    \/ \E c \in Devices, i \in 1..MaxInFlight, stored \in BOOLEAN :
           LocationUpdateFound(c, i, stored)
    \/ \E c \in Devices, i \in 1..MaxInFlight, stored \in BOOLEAN :
           LocationUpdateResume(c, i, stored)
    \/ \E c \in Devices, u \in Users : Within(MaxEvents) /\ StartTracking(c, u)
    \/ \E c \in Devices, i \in 1..MaxInFlight, stored \in BOOLEAN :
           StartTrackingUserRead(c, i, stored)
    \/ \E c \in Devices, i \in 1..MaxInFlight, stored \in BOOLEAN :
           StartTrackingFound(c, i, stored)
    \/ \E c \in Devices, i \in 1..MaxInFlight, stored \in BOOLEAN :
           StartTrackingResume(c, i, stored)
    \/ \E c \in Devices, i \in 1..MaxInFlight : StartTrackingFinish(c, i)
    \/ \E c \in Devices, u \in Users : Within(MaxEvents) /\ StopTracking(c, u)
    \/ \E c \in Devices, i \in 1..MaxInFlight, stored \in BOOLEAN :
           StopTrackingFound(c, i, stored)
    \/ \E c \in Devices, i \in 1..MaxInFlight, stored \in BOOLEAN :
           StopTrackingResume(c, i, stored)
    \/ \E c \in Devices, u \in Users : Within(MaxEvents) /\ EmergencyRequest(c, u)
    \/ \E c \in Devices, i \in 1..MaxInFlight : EmergencyRequestResume(c, i)
    \/ \E c \in Devices : Disconnect(c)

Spec == Init /\ [][Next]_vars

\* Three client connections: s1 reports locations for its own user, s2 and s3 listen.
NextFanout ==
    \/ \E c \in Conns : Connect(c)
    \/ \E c \in Conns : \E token \in TokensOf(c) : Within(MaxFanoutEvents) /\ Authenticate(c, token)
    \/ \E c \in Conns, i \in 1..MaxInFlight : AuthenticateJoinOrg(c, i)
    \/ \E c \in Conns, i \in 1..MaxInFlight : AuthenticateFinish(c, i)
    \/ \E c \in Devices, loc \in FanoutLocations, act \in BOOLEAN :
           /\ Within(MaxFanoutEvents) /\ IsAuthenticated(c)
           /\ LocationUpdate(c, activeConnections[c].userId, loc, act)
    \/ \E c \in Conns, i \in 1..MaxInFlight, stored \in BOOLEAN :
           LocationUpdateFound(c, i, stored)
    \/ \E c \in Conns, i \in 1..MaxInFlight, stored \in BOOLEAN :
           LocationUpdateResume(c, i, stored)
    \/ \E c \in Conns : Disconnect(c)

SpecFanout == Init /\ [][NextFanout]_vars

\* The connections of customers, who hold no access token.
Customers == {"s2"}

\* A delivery user's device (s1, user u1) that tracks and reports locations, and a
\* customer connection that asks to watch u1.
NextWatch ==
    \/ \E c \in Devices \cup Customers : Connect(c)
    \/ \E c \in Devices : Within(MaxFanoutEvents) /\ Authenticate(c, "jwt_u1_org1")
    \/ \E c \in Devices, i \in 1..MaxInFlight : AuthenticateJoinOrg(c, i)
    \/ \E c \in Devices, i \in 1..MaxInFlight : AuthenticateFinish(c, i)
    \/ \E c \in Devices : Within(MaxFanoutEvents) /\ StartTracking(c, "u1")
    \/ \E c \in Devices, i \in 1..MaxInFlight, stored \in BOOLEAN :
           StartTrackingUserRead(c, i, stored)
    \/ \E c \in Devices, i \in 1..MaxInFlight, stored \in BOOLEAN :
           StartTrackingFound(c, i, stored)
    \/ \E c \in Devices, i \in 1..MaxInFlight, stored \in BOOLEAN :
           StartTrackingResume(c, i, stored)
    \/ \E c \in Devices, i \in 1..MaxInFlight : StartTrackingFinish(c, i)
    \/ \E c \in Devices, loc \in FanoutLocations :
           Within(MaxFanoutEvents) /\ LocationUpdate(c, "u1", loc, TRUE)
    \/ \E c \in Devices, i \in 1..MaxInFlight, stored \in BOOLEAN :
           LocationUpdateFound(c, i, stored)
    \/ \E c \in Devices, i \in 1..MaxInFlight, stored \in BOOLEAN :
           LocationUpdateResume(c, i, stored)
    \/ \E c \in Customers : Within(MaxFanoutEvents) /\ WatchJoin(c, "u1")
    \/ \E c \in Devices \cup Customers : Disconnect(c)

SpecWatch == Init /\ [][NextWatch]_vars

\* One client connection that authenticates (possibly again, with another identity) and
\* disconnects, while administrators push messages to users and organizations.
NextAdmin ==
    \/ \E c \in Devices : Connect(c)
    \/ \E c \in Devices, token \in Tokens : Within(MaxEvents) /\ Authenticate(c, token)
    \/ \E c \in Devices, i \in 1..MaxInFlight : AuthenticateJoinOrg(c, i)
    \/ \E c \in Devices, i \in 1..MaxInFlight : AuthenticateFinish(c, i)
    \/ \E u \in Users : SendToUser(u)
    \/ \E o \in Orgs : SendToOrganization(o)
    \/ \E ev \in PushEvents : Broadcast(ev)
    \/ \E c \in Devices : Disconnect(c)

SpecAdmin == Init /\ [][NextAdmin]_vars

\* Two client connections, both holding a token of user u1 in organization org1 and s1
\* one of u2 in org2 as well, that authenticate (also again), start and stop tracking,
\* report locations and disconnect, while an organization's administrator asks for the
\* active tracking users once.
QueryConns == {"s1", "s2"}

\* data.location of the location_update events sent meanwhile.
QueryLocations == {<<90, -180>>}

\* The calls suspended at an await: the handlers and the getActiveTrackingUsers call.
SuspendedCalls == Suspended(Conns) + (IF query.pc \in {"user", "tracking"} THEN 1 ELSE 0)

\* One more event or call is accepted: at most MaxFanoutEvents events, at most
\* MaxInFlight calls suspended at a time.
WithinQuery == arrived < MaxFanoutEvents /\ SuspendedCalls < MaxInFlight

NextQuery ==
    \/ \E c \in QueryConns : Connect(c)
    \/ \E c \in QueryConns : \E token \in TokensOf(c) : WithinQuery /\ Authenticate(c, token)
    \/ \E c \in QueryConns, i \in 1..MaxInFlight : AuthenticateJoinOrg(c, i)
    \/ \E c \in QueryConns, i \in 1..MaxInFlight : AuthenticateFinish(c, i)
    \/ \E c \in QueryConns : WithinQuery /\ StartTracking(c, "u1")
    \/ \E c \in QueryConns, i \in 1..MaxInFlight, stored \in BOOLEAN :
           StartTrackingUserRead(c, i, stored)
    \/ \E c \in QueryConns, i \in 1..MaxInFlight, stored \in BOOLEAN :
           StartTrackingFound(c, i, stored)
    \/ \E c \in QueryConns, i \in 1..MaxInFlight, stored \in BOOLEAN :
           StartTrackingResume(c, i, stored)
    \/ \E c \in QueryConns, i \in 1..MaxInFlight : StartTrackingFinish(c, i)
    \/ \E c \in QueryConns : WithinQuery /\ StopTracking(c, "u1")
    \/ \E c \in QueryConns, i \in 1..MaxInFlight, stored \in BOOLEAN :
           StopTrackingFound(c, i, stored)
    \/ \E c \in QueryConns, i \in 1..MaxInFlight, stored \in BOOLEAN :
           StopTrackingResume(c, i, stored)
    \/ \E c \in QueryConns, loc \in QueryLocations, act \in BOOLEAN :
           WithinQuery /\ LocationUpdate(c, "u1", loc, act)
    \/ \E c \in QueryConns, i \in 1..MaxInFlight, stored \in BOOLEAN :
           LocationUpdateFound(c, i, stored)
    \/ \E c \in QueryConns, i \in 1..MaxInFlight, stored \in BOOLEAN :
           LocationUpdateResume(c, i, stored)
    \/ \E o \in Orgs : SuspendedCalls < MaxInFlight /\ QueryStart(o)
    \/ \E stored \in BOOLEAN : QueryUserRead(stored)
    \/ QueryTrackingRead
    \/ QueryRejected
    \/ \E c \in QueryConns : Disconnect(c)

SpecQuery == Init /\ [][NextQuery]_vars

\* One authenticated connection that sends emergency requests with every priority of the
\* input set.
NextEmergency ==
    \/ \E c \in Devices : Connect(c)
    \/ \E c \in Devices : Within(MaxEvents) /\ Authenticate(c, "jwt_u1_org1")
    \/ \E c \in Devices, i \in 1..MaxInFlight : AuthenticateJoinOrg(c, i)
    \/ \E c \in Devices, i \in 1..MaxInFlight : AuthenticateFinish(c, i)
    \/ \E c \in Devices, u \in Users, priority \in Priorities :
           Within(MaxEvents) /\ EmergencyRequestWith(c, u, priority)
    \/ \E c \in Devices, i \in 1..MaxInFlight : EmergencyRequestResume(c, i)
    \/ \E c \in Devices : Disconnect(c)

SpecEmergency == Init /\ [][NextEmergency]_vars

\* Two tenants: s2 is the connection of user u1 of organization org1, s3 the one of user
\* u2 of organization org2.  s2 starts and stops tracking, naming any user; s3 reports
\* locations of its own user.
Tenant1 == {"s2"}
Tenant2 == {"s3"}

NextTenant ==
    \/ \E c \in Tenant1 \cup Tenant2 : Connect(c)
    \/ \E c \in Tenant1 \cup Tenant2 : \E token \in TokensOf(c) :
           /\ Within(MaxFanoutEvents) /\ ~IsAuthenticated(c) /\ inflight[c] = <<>>
           /\ Authenticate(c, token)
    \/ \E c \in Tenant1 \cup Tenant2, i \in 1..MaxInFlight : AuthenticateJoinOrg(c, i)
    \/ \E c \in Tenant1 \cup Tenant2, i \in 1..MaxInFlight : AuthenticateFinish(c, i)
    \/ \E c \in Tenant1, u \in Users : Within(MaxFanoutEvents) /\ StartTracking(c, u)
    \/ \E c \in Tenant1, i \in 1..MaxInFlight, stored \in BOOLEAN :
           StartTrackingUserRead(c, i, stored)
    \/ \E c \in Tenant1, i \in 1..MaxInFlight, stored \in BOOLEAN :
           StartTrackingFound(c, i, stored)
    \/ \E c \in Tenant1, i \in 1..MaxInFlight, stored \in BOOLEAN :
           StartTrackingResume(c, i, stored)
    \/ \E c \in Tenant1, i \in 1..MaxInFlight : StartTrackingFinish(c, i)
    \/ \E c \in Tenant1, u \in Users : Within(MaxFanoutEvents) /\ StopTracking(c, u)
    \/ \E c \in Tenant1, i \in 1..MaxInFlight, stored \in BOOLEAN :
           StopTrackingFound(c, i, stored)
    \/ \E c \in Tenant1, i \in 1..MaxInFlight, stored \in BOOLEAN :
           StopTrackingResume(c, i, stored)
    \/ \E c \in Tenant2, loc \in FanoutLocations :
           /\ Within(MaxFanoutEvents) /\ IsAuthenticated(c)
           /\ LocationUpdate(c, activeConnections[c].userId, loc, TRUE)
    \/ \E c \in Tenant2, i \in 1..MaxInFlight, stored \in BOOLEAN :
           LocationUpdateFound(c, i, stored)
    \/ \E c \in Tenant2, i \in 1..MaxInFlight, stored \in BOOLEAN :
           LocationUpdateResume(c, i, stored)

SpecTenant == Init /\ [][NextTenant]_vars

\* The persistence functions of the handlers and of TrackingService called for the two
\* users, at most MaxEvents calls, at most MaxInFlight of them suspended at a time.
NextStore ==
    \/ \E u \in Users, loc \in StoreLocations, act \in BOOLEAN :
           /\ arrived < MaxEvents /\ Len(bridge) < MaxInFlight
           /\ UpdateLocationInDatabase(u, loc, act)
    \/ \E u \in Users :
           /\ arrived < MaxEvents /\ Len(bridge) < MaxInFlight
           /\ StartTrackingInDatabase(u)
    \/ \E u \in Users :
           /\ arrived < MaxEvents /\ Len(bridge) < MaxInFlight
           /\ StopTrackingInDatabase(u)
    \/ \E u \in Users, loc \in StoreLocations :
           /\ arrived < MaxEvents /\ Len(bridge) < MaxInFlight
           /\ UpdateLocation(u, loc)
    \/ \E u \in Users :
           /\ arrived < MaxEvents /\ Len(bridge) < MaxInFlight
           /\ StartTrackingOf(u)
    \/ \E u \in Users :
           /\ arrived < MaxEvents /\ Len(bridge) < MaxInFlight
           /\ StopTrackingOf(u)
    \/ \E u \in Users, loc \in StoreLocations :
           /\ arrived < MaxEvents /\ Len(bridge) < MaxInFlight
           /\ CreateEmergencyRequest(u, loc)
    \/ \E k \in 1..MaxInFlight, stored \in BOOLEAN : UserFound(k, stored)
    \/ \E k \in 1..MaxInFlight, stored \in BOOLEAN : TrackingFound(k, stored)
    \/ \E k \in 1..MaxInFlight, stored \in BOOLEAN, org \in BOOLEAN : Saved(k, stored, org)
    \/ \E k \in 1..MaxInFlight : HistoryFound(k)

SpecStore == Init /\ [][NextStore]_vars

\* ------------------------------------------------------------- properties
\* The organization subscriber sets a connection id is contained in.
OrgSetsOf(c) == {o \in DOMAIN organizationRooms : c \in organizationRooms[o]}

InOrgSet(c, o) == o \in OrgSetsOf(c)

\* The range of coordinates the specification accepts, stated on its own.
OutOfRange(loc) == loc[1] < -90 \/ loc[1] > 90 \/ loc[2] < -180 \/ loc[2] > 180

\* The tracking events of a client, as steps of connection c.
TrackingEventOn(c) ==
    \/ \E u \in Users, loc \in Locations, act \in BOOLEAN : LocationUpdate(c, u, loc, act)
    \/ \E u \in Users : StartTracking(c, u)
    \/ \E u \in Users : StopTracking(c, u)
    \/ \E u \in Users : EmergencyRequest(c, u)

\* How many emissions of event ev in o were delivered to socket x.
Delivered(o, ev, x) == Cardinality({k \in DOMAIN o : o[k].ev = ev /\ x \in o[k].to})

\* C1 (P1, membership exclusivity): in every reachable state each connection id is in
\* at most one organization subscriber set, and the key of that set is the
\* organizationId of the connection's registry record.
C1_MembershipExclusivity ==
    \A c \in Conns :
        /\ Cardinality(OrgSetsOf(c)) <= 1
        /\ \A o \in OrgSetsOf(c) :
               c \in DOMAIN activeConnections /\ activeConnections[c].organizationId = o

\* C2 (P3, cleanup completeness): when the disconnect handler of a connection has run,
\* the registry has no entry for it and it is in no organization subscriber set and in
\* no customer room.
C2_CleanupComplete ==
    [][\A c \in Conns :
          Disconnect(c) =>
              /\ c \notin DOMAIN activeConnections'
              /\ \A o \in DOMAIN organizationRooms' : c \notin organizationRooms'[o]
              /\ \A u \in Users : c \notin rooms'[CustomerRoom(u)]]_vars

\* C3 (P2, no broadcast before auth): a location_update, start_tracking, stop_tracking
\* or emergency_request on a connection without a registry entry is answered with the
\* error "Not authenticated" to the sender only, makes no persistence call and leaves
\* the registry, the organization sets and the rooms unchanged.
C3_NoBroadcastBeforeAuth ==
    [][\A c \in Conns :
          (c \notin DOMAIN activeConnections /\ TrackingEventOn(c)) =>
              /\ Len(out') = 1
              /\ out'[1].ev = "error:Not authenticated"
              /\ out'[1].room = <<"socket", c>>
              /\ out'[1].to = {c}
              /\ db' = <<>>
              /\ UNCHANGED <<sockets, rooms, activeConnections, organizationRooms, inflight>>]_vars

\* A tracking event was rejected on a connection whose authenticate is still suspended.
C3_Witness ==
    \E c \in Conns :
        /\ c \notin DOMAIN activeConnections
        /\ inflight[c] # <<>>
        /\ Len(out) = 1
        /\ out[1].ev = "error:Not authenticated"
        /\ out[1].to = {c}

\* C4 (Scenario E, fan-out): when a location_update that passed validation and
\* persistence is broadcast for a connection authenticated into organization O, every
\* connected member of O's room gets exactly one location_updated and every other
\* connection gets none.
C4_FanOut ==
    [][\A c \in Conns : \A i \in DOMAIN inflight[c] :
          ( /\ inflight[c][i].ev = "location_update"
            /\ ~OutOfRange(inflight[c][i].location)
            /\ LocationUpdateResume(c, i, TRUE) ) =>
              \A x \in Conns :
                  Delivered(out', "location_updated", x) =
                      IF sockets[x] = "connected" /\ x \in rooms[OrgRoom(inflight[c][i].org)]
                      THEN 1 ELSE 0]_vars

\* Two members of one organization room got a location_updated that a connected member
\* of the other organization's room did not get.
C4_Witness ==
    \E k \in DOMAIN out :
        /\ out[k].ev = "location_updated"
        /\ Cardinality(out[k].to) >= 2
        /\ \E x \in Conns \ out[k].to : \E o \in Orgs :
               /\ sockets[x] = "connected"
               /\ OrgRoom(o) # out[k].room
               /\ x \in rooms[OrgRoom(o)]

\* C5 (P4, coordinate validation): a location_update of an authenticated connection with
\* a latitude outside [-90,90] or a longitude outside [-180,180] emits nothing when it
\* arrives and is answered with one error event on the sender's socket, with no
\* broadcast to any room.
C5_CoordinateValidation ==
    [][\A c \in Conns :
          /\ \A u \in Users, loc \in Locations, act \in BOOLEAN :
                 (OutOfRange(loc) /\ c \in DOMAIN activeConnections
                    /\ LocationUpdate(c, u, loc, act)) => out' = <<>>
          /\ \A i \in DOMAIN inflight[c] :
                 ( /\ inflight[c][i].ev = "location_update"
                   /\ OutOfRange(inflight[c][i].location)
                   /\ \/ \E stored \in BOOLEAN : LocationUpdateResume(c, i, stored)
                      \/ LocationUpdateFound(c, i, FALSE) ) =>
                     /\ Len(out') = 1
                     /\ out'[1].ev = "error:Failed to update location"
                     /\ out'[1].room = <<"socket", c>>]_vars

\* The sender of an out-of-range location was answered with the error.
C5_Witness ==
    /\ Len(out) = 1
    /\ out[1].ev = "error:Failed to update location"
    /\ OutOfRange(out[1].location)
    /\ out[1].to = {out[1].from}

\* C6 (Scenario C, no persistence on invalid input): for a location_update with
\* out-of-range coordinates no persistence call is made, neither when it arrives nor
\* later, and the registry is unchanged.
C6_NoPersistenceOnInvalid ==
    [][\A c \in Conns :
          /\ \A u \in Users, loc \in Locations, act \in BOOLEAN :
                 (OutOfRange(loc) /\ LocationUpdate(c, u, loc, act)) =>
                     db' = <<>> /\ UNCHANGED activeConnections
          /\ \A i \in DOMAIN inflight[c] :
                 ( /\ inflight[c][i].ev = "location_update"
                   /\ OutOfRange(inflight[c][i].location)
                   /\ \E stored \in BOOLEAN : LocationUpdateResume(c, i, stored) ) =>
                     db' = <<>> /\ UNCHANGED activeConnections]_vars

\* C7 (Scenario D, disconnect notification): the disconnect handler emits one
\* user_disconnected, to the room of the connection's organization and with its userId,
\* exactly when the connection's record says isTracking, and nothing else; once the
\* disconnect has been processed the registry has no entry for the connection, and no
\* getActiveTrackingUsers that returns from then on returns the connection.
C7_DisconnectNotification ==
    [][\A c \in Conns :
          /\ Disconnect(c) =>
                 /\ (\E k \in DOMAIN out' : out'[k].ev = "user_disconnected")
                        <=> (c \in DOMAIN activeConnections /\ activeConnections[c].isTracking)
                 /\ Len(out') <= 1
                 /\ \A k \in DOMAIN out' :
                        /\ out'[k].ev = "user_disconnected"
                        /\ out'[k].room = OrgRoom(activeConnections[c].organizationId)
                        /\ out'[k].userId = activeConnections[c].userId
          /\ sockets'[c] = "disconnected" => c \notin DOMAIN activeConnections'
          /\ (query.pc # "done" /\ query'.pc = "done" /\ sockets'[c] = "disconnected") =>
                 c \notin TrackingUsers']_vars

\* C8 (Closed is terminal): no step gives a closed connection a registry entry or a
\* membership of an organization subscriber set that it did not have before the step.
C8_ClosedIsTerminal ==
    [][\A c \in Conns :
          sockets[c] = "disconnected" =>
              /\ c \notin DOMAIN activeConnections => c \notin DOMAIN activeConnections'
              /\ \A o \in Orgs : ~InOrgSet(c, o) => ~InOrgSet(c, o)']_vars

\* C9 (per-connection ordering): of two location_updated broadcasts of one connection
\* made by consecutive steps, the second is not by a handler that arrived before the
\* handler of the first (its position in the arrival queue is not smaller).
C9_ArrivalOrder ==
    [][\A c \in Conns : \A k \in DOMAIN out : \A m \in DOMAIN out' :
          ( /\ out[k].ev = "location_updated" /\ out[k].from = c
            /\ out'[m].ev = "location_updated" /\ out'[m].from = c ) =>
              out'[m].pos >= out[k].pos]_vars

\* Tokens of the input set that do not verify, and those that do.
BadTokens == {"jwt_bad"}
GoodTokens == Tokens \ BadTokens

\* C10 (failed authentication is non-fatal and side-effect free): an authenticate with a
\* token that does not verify, on a connection without a registry entry, is answered
\* with auth_error to the sender only and changes neither the registry nor any room or
\* organization set; right after it the connection still accepts an authenticate with a
\* valid token, which starts joining its rooms.
C10_FailedAuthNonFatal ==
    /\ [][\A c \in Conns :
             (c \notin DOMAIN activeConnections /\ \E t \in BadTokens : Authenticate(c, t)) =>
                 /\ Len(out') = 1
                 /\ out'[1].ev = "auth_error"
                 /\ out'[1].room = <<"socket", c>>
                 /\ out'[1].to = {c}
                 /\ UNCHANGED <<sockets, rooms, activeConnections, organizationRooms, inflight>>]_vars
    /\ [](\A c \in Conns :
             (Len(out) = 1 /\ out[1].ev = "auth_error" /\ out[1].from = c) =>
                 \A t \in GoodTokens :
                     ENABLED (Authenticate(c, t) /\ Len(inflight'[c]) = Len(inflight[c]) + 1))

\* An unauthenticated connection was answered with auth_error and is still connected.
C10_Witness ==
    \E c \in Conns :
        /\ Len(out) = 1
        /\ out[1].ev = "auth_error"
        /\ out[1].to = {c}
        /\ sockets[c] = "connected"
        /\ c \notin DOMAIN activeConnections

\* C11 (persistence failure does not stop fan-out): when the persistence call of a
\* location_update with coordinates in range fails, the handler still broadcasts
\* location_updated to the room of its organization and delivery_location_update to the
\* customer room of the payload's userId, and emits no error event.
C11_FanOutDespiteStoreFailure ==
    [][\A c \in Conns : \A i \in DOMAIN inflight[c] :
          ( /\ inflight[c][i].ev = "location_update"
            /\ ~OutOfRange(inflight[c][i].location)
            /\ LocationUpdateResume(c, i, FALSE) ) =>
              /\ \E k \in DOMAIN out' :
                     /\ out'[k].ev = "location_updated"
                     /\ out'[k].room = OrgRoom(inflight[c][i].org)
              /\ \E k \in DOMAIN out' :
                     /\ out'[k].ev = "delivery_location_update"
                     /\ out'[k].room = CustomerRoom(inflight[c][i].userId)
              /\ \A k \in DOMAIN out' : out'[k].ev # "error:Failed to update location"]_vars

\* C13 (the producer does not hear itself): a delivery_location_update that the
\* location_update handler of a connection emits is not delivered to that connection,
\* also when start_tracking made it a member of the customer room.
C13_ProducerNotEchoed ==
    [][\A c \in Conns : \A i \in DOMAIN inflight[c] :
          ( /\ inflight[c][i].ev = "location_update"
            /\ \E stored \in BOOLEAN : LocationUpdateResume(c, i, stored) ) =>
              \A k \in DOMAIN out' :
                  out'[k].ev = "delivery_location_update" => c \notin out'[k].to]_vars

\* C14 (emergency routing): an emergency_request of a connection with a registry record
\* of organization O makes no emission when it arrives and keeps O; when its handler
\* resumes, emergency_alert is emitted exactly once, to the room of O, carrying O as its
\* organizationId, emergency_sent goes to the sender's socket, and the registry, the
\* organization sets and the rooms are unchanged by both steps.
C14_EmergencyRouting ==
    [][\A c \in Conns :
          /\ \A u \in Users :
                 (c \in DOMAIN activeConnections /\ EmergencyRequest(c, u)) =>
                     /\ out' = <<>>
                     /\ inflight'[c][Len(inflight'[c])].org = activeConnections[c].organizationId
                     /\ UNCHANGED <<activeConnections, organizationRooms, rooms>>
          /\ \A i \in DOMAIN inflight[c] :
                 (inflight[c][i].ev = "emergency_request" /\ EmergencyRequestResume(c, i)) =>
                     /\ Cardinality({k \in DOMAIN out' : out'[k].ev = "emergency_alert"}) = 1
                     /\ \A k \in DOMAIN out' :
                            out'[k].ev = "emergency_alert" =>
                                /\ out'[k].room = <<"org", inflight[c][i].org>>
                                /\ out'[k].organizationId = inflight[c][i].org
                     /\ \E k \in DOMAIN out' :
                            /\ out'[k].ev = "emergency_sent"
                            /\ out'[k].room = <<"socket", c>>
                            /\ sockets[c] = "connected" => out'[k].to = {c}
                     /\ UNCHANGED <<activeConnections, organizationRooms, rooms>>]_vars

\* The organization of the connection was alerted for a request whose payload names a
\* user of the other organization, and the sender was acknowledged.
C14_Witness ==
    /\ Len(out) = 2
    /\ out[1].ev = "emergency_alert"
    /\ out[1].room = <<"org", "org1">>
    /\ out[1].organizationId = "org1"
    /\ out[1].userId = "u2"
    /\ out[1].to # {}
    /\ out[2].ev = "emergency_sent"
    /\ out[2].to = {out[1].from}

\* C12 (Scenario B, customer watch): a connection that asked to watch delivery user D is
\* a member of D's customer room from then on, and every delivery_location_update of D
\* is delivered to exactly the connected members of that room at the time it is emitted
\* (so to the watchers that joined before it, and to none that joined after it).
C12_CustomerWatch ==
    [][/\ \A c \in Conns, u \in Users :
              WatchJoin(c, u) => c \in rooms'[CustomerRoom(u)]
       /\ \A k \in DOMAIN out' :
              out'[k].ev = "delivery_location_update" =>
                  out'[k].to = {x \in rooms[CustomerRoom(out'[k].userId)] :
                                    sockets[x] = "connected"}]_vars

\* The connected sockets whose registry record has userId u, or organizationId o.
LiveOfUser(u) ==
    {c \in DOMAIN activeConnections :
         sockets[c] = "connected" /\ activeConnections[c].userId = u}

LiveOfOrganization(o) ==
    {c \in DOMAIN activeConnections :
         sockets[c] = "connected" /\ activeConnections[c].organizationId = o}

\* No handler of any connection is suspended.
Quiescent == \A c \in Conns : inflight[c] = <<>>

\* C15 (administrative push targeting): while no handler is suspended, sendToUser(u)
\* delivers to exactly the connected sockets whose registry record has userId u and
\* sendToOrganization(o) to exactly those whose record has organizationId o, also when a
\* connection authenticated more than once with different identities.
C15_PushTargeting ==
    [][Quiescent =>
          /\ \A u \in Users : SendToUser(u) => out'[1].to = LiveOfUser(u)
          /\ \A o \in Orgs :
                 SendToOrganization(o) => out'[1].to = LiveOfOrganization(o)]_vars

\* C16 (query snapshot consistency): when getActiveTrackingUsers(org) returns, and each of
\* its persistence reads found its document, the connections it returns are exactly the
\* members of org's subscriber set whose record said isTracking when it was called,
\* whatever start_tracking and stop_tracking handlers ran while it was suspended.
C16_QuerySnapshot ==
    ( /\ query.pc = "done"
      /\ \A k \in DOMAIN query.visited : query.visited[k].found )
        => TrackingUsers = query.atCall

\* The two maps of the service in the current state.
Maps == [activeConnections |-> activeConnections, organizationRooms |-> organizationRooms]

\* C17 (P5, idempotent leave): the disconnect of a connection without a registry entry
\* emits nothing and leaves the registry and every organization subscriber set
\* unchanged; every disconnect step does to the maps what the disconnect listener
\* computes, and in every reachable state running the listener a second time for a
\* connection changes nothing and notifies nobody.
C17_IdempotentLeave ==
    /\ [][\A c \in Conns :
             Disconnect(c) =>
                 /\ c \notin DOMAIN activeConnections =>
                        out' = <<>> /\ UNCHANGED <<activeConnections, organizationRooms>>
                 /\ activeConnections' = OnDisconnect(Maps, c).activeConnections
                 /\ organizationRooms' = OnDisconnect(Maps, c).organizationRooms
                 /\ (out' # <<>>) <=> OnDisconnect(Maps, c).notified]_vars
    /\ [](\A c \in Conns :
             LET once == OnDisconnect(Maps, c)
                 twice == OnDisconnect(once, c)
             IN /\ twice.activeConnections = once.activeConnections
                /\ twice.organizationRooms = once.organizationRooms
                /\ ~twice.notified)

\* A connection on which no event ever arrived was disconnected, and nothing was emitted.
C17_Witness ==
    \E c \in Conns :
        /\ sockets[c] = "disconnected"
        /\ arrived = 0
        /\ activeConnections = <<>>
        /\ organizationRooms = <<>>
        /\ out = <<>>

\* The events that report a producer's tracking to a room.
ProducerEvents ==
    {"location_updated", "delivery_location_update", "tracking_started",
     "delivery_tracking_started", "tracking_stopped"}

\* C18 (events stop at disconnect): once the disconnect of a connection has been
\* processed, no step emits a location_updated, delivery_location_update,
\* tracking_started, delivery_tracking_started or tracking_stopped to a room on behalf of
\* that connection, also not a handler that was suspended when the disconnect ran.
C18_SilentAfterDisconnect ==
    [][\A c \in Conns :
          sockets[c] = "disconnected" =>
              \A k \in DOMAIN out' :
                  (out'[k].from = c /\ out'[k].room[1] # "socket") =>
                      out'[k].ev \notin ProducerEvents]_vars

\* C19 (no dangling member ids): in every reachable state every connection id in an
\* organization subscriber set has a registry entry (the least the claim asks: that the
\* entry is the one of a socket that is still connected is not even required here).
C19_NoDanglingMember ==
    \A o \in DOMAIN organizationRooms : \A c \in organizationRooms[o] :
        c \in DOMAIN activeConnections

\* The rooms a socket is in.
RoomsOf(rm, c) == {r \in DOMAIN rm : c \in rm[r]}

\* C20 (authenticate is accepted only in state Unauthenticated): an authenticate event
\* that arrives on a connection with a registry entry changes neither the entry (identity,
\* isTracking) nor the rooms and organization sets the connection is in.
C20_AuthenticateOnlyOnce ==
    [][\A c \in Conns : \A t \in Tokens :
          (c \in DOMAIN activeConnections /\ Authenticate(c, t)) =>
              /\ UNCHANGED <<activeConnections, organizationRooms>>
              /\ RoomsOf(rooms', c) = RoomsOf(rooms, c)]_vars

\* C21 (location_update leaves the tracking state unchanged): the step in which the
\* location_update handler of a connection with a registry entry finishes leaves the
\* isTracking flag of that entry as it was, whatever the payload's isActive.
C21_LocationKeepsTracking ==
    [][\A c \in Conns : \A i \in DOMAIN inflight[c] :
          ( /\ c \in DOMAIN activeConnections
            /\ inflight[c][i].ev = "location_update"
            /\ \E stored \in BOOLEAN : LocationUpdateResume(c, i, stored) ) =>
              /\ c \in DOMAIN activeConnections'
              /\ activeConnections'[c].isTracking = activeConnections[c].isTracking]_vars

\* C22 (tracking transitions are state-guarded): a start_tracking handled for a connection
\* whose record already says isTracking broadcasts no tracking_started and no
\* delivery_tracking_started to a room; a stop_tracking on a connection whose record does
\* not say isTracking makes no persistence call and broadcasts no tracking_stopped.
C22_GuardedTransitions ==
    [][\A c \in Conns :
          /\ \A u \in Users :
                 ( /\ c \in DOMAIN activeConnections
                   /\ ~activeConnections[c].isTracking
                   /\ StopTracking(c, u) ) => db' = <<>>
          /\ \A i \in DOMAIN inflight[c] :
                 /\ ( /\ c \in DOMAIN activeConnections
                      /\ activeConnections[c].isTracking
                      /\ inflight[c][i].ev = "start_tracking"
                      /\ \E stored \in BOOLEAN : StartTrackingResume(c, i, stored) ) =>
                        \A k \in DOMAIN out' :
                            out'[k].room[1] # "socket" =>
                                out'[k].ev \notin {"tracking_started", "delivery_tracking_started"}
                 /\ ( /\ c \in DOMAIN activeConnections
                      /\ ~activeConnections[c].isTracking
                      /\ inflight[c][i].ev = "stop_tracking"
                      /\ \E stored \in BOOLEAN : StopTrackingResume(c, i, stored) ) =>
                        \A k \in DOMAIN out' :
                            out'[k].room[1] # "socket" => out'[k].ev # "tracking_stopped"]_vars

\* C23 (failure isolation of tracking control events): when the persistence call of a
\* start_tracking or stop_tracking handler fails, the handler emits one error event, on
\* the sender's socket, and nothing to any room, and the registry records, the rooms and
\* the organization sets of all connections are unchanged.
C23_ControlFailureIsolated ==
    [][\A c \in Conns : \A i \in DOMAIN inflight[c] :
          ( \/ /\ inflight[c][i].ev = "start_tracking"
               /\ \/ StartTrackingUserRead(c, i, FALSE)
                  \/ StartTrackingFound(c, i, FALSE)
                  \/ StartTrackingResume(c, i, FALSE)
            \/ /\ inflight[c][i].ev = "stop_tracking"
               /\ StopTrackingFound(c, i, FALSE) \/ StopTrackingResume(c, i, FALSE) ) =>
              /\ Len(out') = 1
              /\ out'[1].ev = IF inflight[c][i].ev = "start_tracking"
                              THEN "error:Failed to start tracking"
                              ELSE "error:Failed to stop tracking"
              /\ out'[1].room = <<"socket", c>>
              /\ sockets[c] = "connected" => out'[1].to = {c}
              /\ UNCHANGED <<activeConnections, rooms, organizationRooms>>]_vars

\* The sender of a start_tracking whose persistence failed got the error, is still idle
\* and in no customer room.
C23_Witness ==
    \E c \in Conns :
        /\ Len(out) = 1
        /\ out[1].ev = "error:Failed to start tracking"
        /\ out[1].to = {c}
        /\ c \in DOMAIN activeConnections
        /\ ~activeConnections[c].isTracking
        /\ \A u \in Users : c \notin rooms[CustomerRoom(u)]

\* C24 (emergency event shape): every emergency_alert that is emitted has the status
\* "pending" and a priority that is one of low, medium, high and critical.
C24_EmergencyShape ==
    \A k \in DOMAIN out :
        out[k].ev = "emergency_alert" =>
            /\ out[k].status = "pending"
            /\ out[k].priority \in {"low", "medium", "high", "critical"}

\* C25 (no empty organization entries): in every reachable state no key of
\* organizationRooms has an empty set and getActiveConnections of an organization without
\* a key returns the empty list; a key appears only with one member, and a key disappears
\* only in the disconnect of the connection that was its only member.
C25_NoEmptyEntries ==
    /\ [](/\ \A o \in DOMAIN organizationRooms : organizationRooms[o] # {}
          /\ \A o \in Orgs \ DOMAIN organizationRooms : GetActiveConnections(o) = {})
    /\ [][\A o \in Orgs :
             /\ (o \notin DOMAIN organizationRooms /\ o \in DOMAIN organizationRooms') =>
                    Cardinality(organizationRooms'[o]) = 1
             /\ (o \in DOMAIN organizationRooms /\ o \notin DOMAIN organizationRooms') =>
                    \E c \in Conns : Disconnect(c) /\ organizationRooms[o] = {c}]_vars

\* The disconnect of a tracking connection, the last member of its organization's set,
\* deleted the entry, while the other organization keeps its entry.
C25_Witness ==
    \E k \in DOMAIN out : \E o \in Orgs :
        /\ out[k].ev = "user_disconnected"
        /\ out[k].room = <<"org", o>>
        /\ o \notin DOMAIN organizationRooms
        /\ GetActiveConnections(o) = {}
        /\ DOMAIN organizationRooms # {}

\* C26 (registry implies membership): in every reachable state every connection with a
\* registry entry is in the organization subscriber set keyed by the entry's
\* organizationId; and right after an authenticate succeeded for organization o the
\* connection is in o's set and in no other organization's set.
C26_RegistryImpliesMembership ==
    /\ [](\A c \in DOMAIN activeConnections : InOrgSet(c, activeConnections[c].organizationId))
    /\ [][\A c \in Conns : \A i \in DOMAIN inflight[c] :
             ( /\ inflight[c][i].ev = "authenticate"
               /\ inflight[c][i].pc = "joinOrg"
               /\ AuthenticateFinish(c, i) ) =>
                 OrgSetsOf(c)' = {inflight[c][i].org}]_vars

\* The events that carry a producer's userId.
IdentityEvents ==
    {"location_updated", "delivery_location_update", "tracking_started",
     "delivery_tracking_started", "tracking_stopped", "emergency_alert"}

\* C29 (identity binding of events): every persistence call that a tracking event of a
\* connection with a registry entry issues names the userId of that entry, and every
\* identity event that a handler holding the stored entry emits to a room names that
\* userId and, when it goes to a customer room, goes to the customer room of that userId.
C29_IdentityBinding ==
    [][\A c \in DOMAIN activeConnections :
          /\ TrackingEventOn(c) =>
                 \A k \in DOMAIN db' :
                     db'[k].fn # "createEmergencyRequest" =>
                         db'[k].userId = activeConnections[c].userId
          /\ \A k \in DOMAIN out' :
                 ( /\ out'[k].from = c
                   /\ out'[k].ev \in IdentityEvents
                   /\ out'[k].room[1] # "socket"
                   /\ out'[k].pos \in DOMAIN inflight[c]
                   /\ inflight[c][out'[k].pos].live ) =>
                     /\ out'[k].userId = activeConnections[c].userId
                     /\ out'[k].room[1] = "customer" =>
                            out'[k].room = <<"customer", activeConnections[c].userId>>]_vars

\* C30 (tenant isolation of location streams): a location_updated or
\* delivery_location_update emitted by a handler of a connection registered in one
\* organization is delivered to no connection registered in another organization.
C30_TenantIsolation ==
    [][\A k \in DOMAIN out' :
          ( /\ out'[k].ev \in {"location_updated", "delivery_location_update"}
            /\ out'[k].from \in DOMAIN activeConnections ) =>
              \A x \in out'[k].to :
                  x \in DOMAIN activeConnections =>
                      activeConnections[x].organizationId =
                          activeConnections[out'[k].from].organizationId]_vars


\* C27 (every announced tracking session is closed): once a connection has disconnected and
\* all its in-flight handlers have finished, no tracking_started that was broadcast to an
\* organization room on its behalf is left without a later tracking_stopped or
\* user_disconnected of that connection broadcast to the same room.
C27_SessionsClosed ==
    \A c \in Conns :
        (sockets[c] = "disconnected" /\ inflight[c] = <<>>) =>
            \A s \in sessions : s[1] # c


\* C28 (single current-location record): under every interleaving of the persistence
\* calls of location_update and start_tracking handlers, the store holds at most one
\* active tracking record per userId.
C28_SingleActiveRecord ==
    \A u \in Users :
        Cardinality({k \in DOMAIN store : store[k].userId = u /\ store[k].isActive}) <= 1
====
